---- MODULE Spec2Model ----
(***************************************************************************)
(* A model of two routines of polars:                                      *)
(*   - arg_sort   (polars-core, chunked_array/ops/sort/arg_sort.rs)        *)
(*   - upsample / upsample_stable (polars-time, upsample.rs)               *)
(* Both are synchronous functions.  Each is modelled as a small program    *)
(* whose inputs are drawn in the initial state (the caller's data) or at   *)
(* the call (the arguments), and whose steps follow the source.            *)
(***************************************************************************)
EXTENDS Integers, Sequences, FiniteSets, TLC

\* ------------------------------------------------------------------ bounds
MaxLen == 3      \* longest arg_sort input
MaxVal == 1      \* arg_sort values are 0..MaxVal, NaN, or null
MaxRows == 3     \* most rows of an upsampled frame
MaxT == 2        \* time column values are 0..MaxT (ticks, or days for Date)
MaxEvery == 2    \* `every` is 1..MaxEvery ticks (or days for Date)
MaxOffset == 1   \* `offset` is -1..MaxOffset ticks (or days for Date)

\* ------------------------------------------------------------- Option<T>
None == <<>>
Some(v) == <<v>>
IsSome(o) == o # None
Unwrap(o) == o[1]

\* ------------------------------------------------------------ sequences
RECURSIVE Flatten(_)
Flatten(ss) == IF ss = <<>> THEN <<>> ELSE Head(ss) \o Flatten(Tail(ss))

Reverse(s) == [i \in 1..Len(s) |-> s[Len(s) + 1 - i]]

Range(s) == {s[i] : i \in 1..Len(s)}

SeqsUpTo(S, n) == UNION {[1..k -> S] : k \in 0..n}

\* =========================================================================
\* arg_sort
\* =========================================================================

\* A float: either NaN or a number.
NaN == [nan |-> TRUE, x |-> 0]
Num(v) == [nan |-> FALSE, x |-> v]
SortValues == {Num(v) : v \in 0..MaxVal} \cup {NaN}
SortItems == {None} \cup {Some(v) : v \in SortValues}

VARIABLES
    prog,        \* which routine this behaviour runs: "arg_sort" or "upsample"
    pc,          \* position in the routine
    iters,       \* arg_sort: the chunks, each a sequence of Option<T>
    options,     \* arg_sort: SortOptions
    null_count,  \* arg_sort: argument
    len,         \* arg_sort: argument
    vals,        \* arg_sort: Vec<(IdxSize, T)>
    nulls_idx,   \* arg_sort: Vec<IdxSize>
    null_cap,    \* arg_sort: capacity nulls_idx was created with
    count,       \* arg_sort: running position counter
    chunk,       \* arg_sort: index of the chunk being read
    pos,         \* arg_sort: index of the next element in that chunk
    oob,         \* arg_sort: a push_unchecked wrote past the capacity
    realloc,     \* arg_sort: nulls_idx.extend had to reallocate
    idx,         \* arg_sort: the result
    source,      \* upsample: the caller's frame, a sequence of rows
    dtype,       \* upsample: dtype of the caller's time column
    by,          \* upsample: argument, the grouping column names
    every,       \* upsample: argument, the step
    offset,      \* upsample: argument, the shift of the start
    stable,      \* upsample: TRUE for upsample_stable
    df,          \* upsample_impl: the frame it works on (source, or its cast clone)
    wdtype,      \* upsample_impl: dtype of df's time column
    bridged,     \* upsample_impl: inside the recursive call of the Date branch
    groups,      \* upsample_impl: the groups apply has still to visit
    blocks,      \* upsample_impl: the per-group results apply has collected
    calls,       \* log of upsample_single_impl: (first, last, range) per call
    res,         \* result frame of the Datetime upsample_impl
    outcome,     \* "none", "ok", "panic" or the error returned
    out,         \* the frame returned to the caller
    out_dtype    \* dtype of its time column

sortVars == <<iters, options, null_count, len, vals, nulls_idx, null_cap,
              count, chunk, pos, oob, realloc, idx>>

upVars == <<source, dtype, by, every, offset, stable, df, wdtype, bridged,
            groups, blocks, calls, res, outcome, out, out_dtype>>

vars == <<prog, pc, sortVars, upVars>>

\* compare_fn_nan_max: total order on floats with NaN the maximum.
compare_fn_nan_max(a, b) ==
    IF a.nan /\ b.nan THEN "Equal"
    ELSE IF a.nan THEN "Greater"
    ELSE IF b.nan THEN "Less"
    ELSE IF a.x < b.x THEN "Less"
    ELSE IF a.x > b.x THEN "Greater"
    ELSE "Equal"

ascending_order(a, b) == compare_fn_nan_max(a[2], b[2])

descending_order_noswap(a, b) == compare_fn_nan_max(a[2], b[2])

descending_order(a, b) == compare_fn_nan_max(b[2], a[2])

\* slice::sort_by / par_sort_by: all orders of the slice the comparator
\* accepts (ties in any order).  The comparator is a function on pairs.
SortedBy(slice, cmp) ==
    LET n == Len(slice)
        arr == {[i \in 1..n |-> slice[p[i]]] : p \in Permutations(1..n)}
    IN {q \in arr : \A i, j \in 1..n : i < j => cmp[<<q[i], q[j]>>] # "Greater"}

\* arg_sort_branch: sort_by / par_sort_by with the comparator descending picks.
arg_sort_branch(slice, descending, default_order_fn, reverse_order_fn, parallel) ==
    IF descending
    THEN SortedBy(slice, reverse_order_fn)
    ELSE SortedBy(slice, default_order_fn)

NullCap_alwaysNullCount(nulls_last, nc, n) == nc

\* let null_cap = if nulls_last { null_count } else { len };
NullCap(nulls_last, nc, n) == IF nulls_last THEN nc ELSE n

AssembleIdx_dropNulls(sorted, nulls, nulls_last, descending) ==
    IF nulls_last THEN sorted
    ELSE (IF descending THEN Reverse(nulls) ELSE nulls) \o sorted

AssembleIdx_nullsFirst(sorted, nulls, nulls_last, descending) ==
    (IF descending THEN Reverse(nulls) ELSE nulls) \o sorted

\* The final assembly of the permutation from the sorted non-null positions
\* and the null positions.
AssembleIdx(sorted, nulls, nulls_last, descending) ==
    IF nulls_last
    THEN sorted \o (IF descending THEN Reverse(nulls) ELSE nulls)
    ELSE (IF descending THEN Reverse(nulls) ELSE nulls) \o sorted

\* The upsample variables while arg_sort runs.
UpIdle ==
    /\ source = <<>> /\ dtype = "Datetime" /\ by = <<>> /\ every = 1
    /\ offset = 0 /\ stable = FALSE /\ df = <<>> /\ wdtype = "Datetime"
    /\ bridged = FALSE /\ groups = <<>> /\ blocks = <<>> /\ calls = <<>>
    /\ res = <<>> /\ outcome = "none" /\ out = <<>> /\ out_dtype = "Datetime"

NullsIn(s) == Cardinality({i \in 1..Len(s) : s[i] = None})

\* The inputs: a flat sequence cut into two chunks at any point.
SortInputs ==
    {<<SubSeq(sk[1], 1, sk[2]), SubSeq(sk[1], sk[2] + 1, Len(sk[1]))>> :
        sk \in {c \in SeqsUpTo(SortItems, MaxLen) \X (0..MaxLen) : c[2] <= Len(c[1])}}

SortOptions == [descending : BOOLEAN, nulls_last : BOOLEAN, multithreaded : BOOLEAN]

InitSort ==
    /\ prog = "arg_sort"
    /\ pc = "call"
    /\ iters \in SortInputs
    /\ options \in SortOptions
    /\ len = Len(Flatten(iters))
    /\ null_count = NullsIn(Flatten(iters))
    /\ vals = <<>>
    /\ nulls_idx = <<>>
    /\ null_cap = 0
    /\ count = 0
    /\ chunk = 1
    /\ pos = 1
    /\ oob = FALSE
    /\ realloc = FALSE
    /\ idx = <<>>
    /\ UpIdle

\* Lines 27-34: the buffers are created.
ArgSortEntry ==
    /\ prog = "arg_sort" /\ pc = "call"
    /\ null_cap' = NullCap(options.nulls_last, null_count, len)
    /\ pc' = "partition"
    /\ UNCHANGED <<upVars, prog, iters, options, null_count, len, vals, nulls_idx,
                   count, chunk, pos, oob, realloc, idx>>

\* Lines 37-48: one element of the current chunk goes through filter_map.
PartitionStep ==
    /\ prog = "arg_sort" /\ pc = "partition"
    /\ chunk <= Len(iters)
    /\ pos <= Len(iters[chunk])
    /\ LET v == iters[chunk][pos]
           i == count
       IN /\ count' = count + 1
          /\ IF IsSome(v)
             THEN /\ vals' = Append(vals, <<i, Unwrap(v)>>)
                  /\ UNCHANGED <<nulls_idx, oob>>
             ELSE /\ nulls_idx' = Append(nulls_idx, i)
                  /\ oob' = (oob \/ Len(nulls_idx) >= null_cap)
                  /\ UNCHANGED vals
    /\ pos' = pos + 1
    /\ UNCHANGED <<upVars, prog, pc, iters, options, null_count, len, null_cap,
                   chunk, realloc, idx>>

\* Line 36: the outer loop moves to the next chunk.
NextChunk ==
    /\ prog = "arg_sort" /\ pc = "partition"
    /\ chunk <= Len(iters)
    /\ pos > Len(iters[chunk])
    /\ chunk' = chunk + 1
    /\ pos' = 1
    /\ UNCHANGED <<upVars, prog, pc, iters, options, null_count, len, vals, nulls_idx,
                   null_cap, count, oob, realloc, idx>>

\* Lines 52-58: the dense buffer is sorted.
SortVals ==
    /\ prog = "arg_sort" /\ pc = "partition"
    /\ chunk > Len(iters)
    /\ LET pairs == Range(vals) \X Range(vals)
       IN vals' \in arg_sort_branch(vals, options.descending,
                                    [p \in pairs |-> ascending_order(p[1], p[2])],
                                    [p \in pairs |-> descending_order(p[1], p[2])],
                                    options.multithreaded)
    /\ pc' = "sorted"
    /\ UNCHANGED <<upVars, prog, iters, options, null_count, len, nulls_idx, null_cap,
                   count, chunk, pos, oob, realloc, idx>>

\* Lines 60-81: the permutation is assembled.
Assemble ==
    /\ prog = "arg_sort" /\ pc = "sorted"
    /\ LET sorted == [i \in 1..Len(vals) |-> vals[i][1]]
       IN /\ idx' = AssembleIdx(sorted, nulls_idx, options.nulls_last,
                                options.descending)
          /\ realloc' = (~options.nulls_last
                         /\ Len(nulls_idx) + Len(sorted) > null_cap)
    /\ pc' = "done"
    /\ UNCHANGED <<upVars, prog, iters, options, null_count, len, vals, nulls_idx,
                   null_cap, count, chunk, pos, oob>>

NextSort == ArgSortEntry \/ PartitionStep \/ NextChunk \/ SortVals \/ Assemble

SpecSort == InitSort /\ [][NextSort]_vars

\* ------------------------------------------------------- arg_sort properties
SortDone == prog = "arg_sort" /\ pc = "done"

Input == Flatten(iters)

\* value at an original position (positions count from 0)
ValueAt(p) == Input[p + 1]

NullPositions == {p \in 0..(len - 1) : ValueAt(p) = None}

\* a <= b with NaN greater than every number
NanMaxLeq(a, b) == b.nan \/ (~a.nan /\ a.x <= b.x)

\* C1: the output of arg_sort has length len and holds every index of
\* [0, len) exactly once.
C1_Permutation ==
    SortDone =>
        /\ Len(idx) = len
        /\ \A p \in 0..(len - 1) :
              Cardinality({i \in 1..Len(idx) : idx[i] = p}) = 1

C1_Witness ==
    /\ SortDone /\ len = MaxLen
    /\ null_count >= 1 /\ null_count < len
    /\ Len(iters[1]) >= 1 /\ Len(iters[2]) >= 1

\* C2: adjacent output entries that both refer to non-null inputs are in
\* order: not greater when ascending, not less when descending, NaN being
\* the maximum.
C2_Ordered ==
    SortDone =>
        \A i \in 1..(Len(idx) - 1) :
            (/\ idx[i] \in 0..(len - 1) /\ idx[i + 1] \in 0..(len - 1)
             /\ IsSome(ValueAt(idx[i])) /\ IsSome(ValueAt(idx[i + 1])))
            => LET a == Unwrap(ValueAt(idx[i]))
                   b == Unwrap(ValueAt(idx[i + 1]))
               IN IF options.descending THEN NanMaxLeq(b, a) ELSE NanMaxLeq(a, b)

C2_Witness ==
    /\ SortDone /\ options.descending
    /\ \E i \in 1..(Len(idx) - 1) :
          /\ ValueAt(idx[i]) = Some(NaN)
          /\ ValueAt(idx[i + 1]) = Some(Num(1))
    /\ \E p \in 0..(len - 1) : ValueAt(p) = Some(Num(0))

\* C3: the null positions are exactly the first null_count output entries
\* when nulls_last is false and exactly the last null_count when it is true.
C3_NullBlock ==
    SortDone =>
        /\ Len(idx) = len
        /\ LET block == IF options.nulls_last
                        THEN (len - null_count + 1)..len
                        ELSE 1..null_count
           IN /\ {idx[i] : i \in block} = NullPositions
              /\ \A i \in (1..len) \ block : idx[i] \notin NullPositions

C3_Witness ==
    /\ SortDone /\ options.nulls_last /\ options.descending
    /\ null_count = 1 /\ len = MaxLen
    /\ \E p \in 0..(len - 1) : ValueAt(p) = Some(NaN)

\* C10: the null-position buffer never holds more than its capacity, no
\* unchecked push writes out of bounds, and with nulls first the final
\* extension does not reallocate.
C10_Capacity ==
    prog = "arg_sort" =>
        /\ ~oob
        /\ pc # "call" =>
              /\ null_cap = IF options.nulls_last THEN null_count ELSE len
              /\ Len(nulls_idx) <= null_cap
        /\ (pc = "done" /\ ~options.nulls_last) => Len(idx) <= null_cap
        /\ ~realloc

C10_Witness ==
    /\ SortDone /\ ~options.nulls_last
    /\ null_count >= 1 /\ len = MaxLen /\ null_count < len
    /\ Len(idx) = null_cap

\* =========================================================================
\* upsample / upsample_stable
\* =========================================================================

\* A row of a frame has the columns "time", "groups" and "values", each an
\* Option.  Durations are counts of ticks of the time column's TimeUnit.

MsPerDay == 86400000

\* Series::cast(Date -> Datetime(Milliseconds, None))
DateToMs(o) == IF IsSome(o) THEN Some(Unwrap(o) * MsPerDay) ELSE None

\* Series::cast(Datetime(Milliseconds) -> Date)
MsToDate(o) == IF IsSome(o) THEN Some(Unwrap(o) \div MsPerDay) ELSE None

Column(frame, name) == [i \in 1..Len(frame) |-> frame[i][name]]

WithColumn(frame, name, col) ==
    [i \in 1..Len(frame) |-> [frame[i] EXCEPT ![name] = col[i]]]

\* ensure_sorted_arg: the non-null values do not decrease.
IsSorted(col) ==
    \A i, j \in 1..Len(col) :
        (i < j /\ IsSome(col[i]) /\ IsSome(col[j])) => Unwrap(col[i]) <= Unwrap(col[j])

\* Duration::add_ns / add_us / add_ms of a fixed-length duration.
DurationAdd(d, t) == t + d

RECURSIVE RangeWhile(_, _, _, _)
RangeWhile(t, end, step, inclusive) ==
    IF t > end \/ (~inclusive /\ t = end) THEN <<>>
    ELSE <<t>> \o RangeWhile(DurationAdd(step, t), end, step, inclusive)

\* datetime_range_impl: start, start + every, ... while not past end.
datetime_range_impl(start, end, step, closed) ==
    IF closed = "both" THEN RangeWhile(start, end, step, TRUE)
    ELSE IF closed = "left" THEN RangeWhile(start, end, step, FALSE)
    ELSE IF closed = "right" THEN RangeWhile(DurationAdd(step, start), end, step, TRUE)
    ELSE RangeWhile(DurationAdd(step, start), end, step, FALSE)

NullRow(t) == [time |-> Some(t), groups |-> None, values |-> None]

\* DataFrame::join of the one-column grid frame with `right` on the time
\* column: left order kept, one output row per matching right row.
RECURSIVE Join(_, _, _)
Join(grid, right, how) ==
    IF grid = <<>> THEN <<>>
    ELSE LET t == Head(grid)
             matches == SelectSeq(right, LAMBDA r : r.time = Some(t))
             rows == IF matches # <<>> THEN matches
                     ELSE IF how = "left" THEN <<NullRow(t)>>
                     ELSE <<>>
         IN rows \o Join(Tail(grid), right, how)

\* FillNullStrategy::Forward(None): the last non-null value is carried down.
RECURSIVE FillForward(_, _)
FillForward(col, last) ==
    IF col = <<>> THEN <<>>
    ELSE LET h == IF IsSome(Head(col)) THEN Head(col) ELSE last
         IN <<h>> \o FillForward(Tail(col), h)

RECURSIVE FirstSeen(_)
FirstSeen(s) ==
    IF s = <<>> THEN <<>>
    ELSE <<Head(s)>> \o FirstSeen(SelectSeq(Tail(s), LAMBDA x : x # Head(s)))

\* group_by_stable: one sub-frame per distinct key, in first-seen order.
group_by_stable(frame, col) ==
    LET keys == FirstSeen(Column(frame, col))
    IN [k \in 1..Len(keys) |->
           [key |-> keys[k],
            df |-> SelectSeq(frame, LAMBDA r : r[col] = keys[k])]]

\* group_by: the same groups, in any order.
group_by(frame, col) ==
    LET g == group_by_stable(frame, col)
        n == Len(g)
    IN {[i \in 1..n |-> g[p[i]]] : p \in Permutations(1..n)}

GridClosed_left == "left"

\* ClosedWindow::Both, the window upsample_single_impl asks for.
GridClosed == "both"

JoinKind_inner == "inner"

\* JoinType::Left, the join upsample_single_impl asks for.
JoinKind == "left"

Failure(e) == [err |-> e, frame |-> <<>>, call |-> <<>>]

upsample_single_impl(src, index_column, dt, ev, off) ==
    IF dt # "Datetime" THEN Failure("dtype")
    ELSE LET ca == SelectSeq(index_column, IsSome)
         IN IF ca = <<>> THEN Failure("boundaries")
            ELSE LET first == DurationAdd(off, Unwrap(ca[1]))
                     last == Unwrap(ca[Len(ca)])
                     range == datetime_range_impl(first, last, ev, GridClosed)
                 IN [err |-> "none",
                     frame |-> Join(range, src, JoinKind),
                     call |-> <<[first |-> first, last |-> last, range |-> range]>>]

ApplyIndexColumn_wholeFrame(group_df, whole_df) == Column(whole_df, "time")

\* let index_column = df.column(index_column)?  -- the group's own column
ApplyIndexColumn(group_df, whole_df) == Column(group_df, "time")

RECURSIVE FillBy(_, _)
FillBy(frame, cols) ==
    IF cols = <<>> THEN frame
    ELSE FillBy(WithColumn(frame, Head(cols),
                           FillForward(Column(frame, Head(cols)), None)),
                Tail(cols))

NarrowBack_forgotten(frame) == frame

\* out.try_apply(index_column, |s| s.cast(&DataType::Date))
NarrowBack(frame) ==
    WithColumn(frame, "time", [i \in 1..Len(frame) |-> MsToDate(frame[i].time)])

\* ---------------------------------------------------------------- inputs
OptTimes == {None} \cup {Some(t) : t \in 0..MaxT}

NullsFirst(col) ==
    \A i, j \in 1..Len(col) : (i < j /\ IsSome(col[i])) => IsSome(col[j])

\* Time columns: sorted ones (nulls first, as a sorted column holds them)
\* and the two-row columns that decrease.
TimeColumns ==
    {c \in SeqsUpTo(OptTimes, MaxRows) : NullsFirst(c) /\ IsSorted(c)}
    \cup {c \in [1..2 -> OptTimes \ {None}] : Unwrap(c[1]) > Unwrap(c[2])}

GroupKeys == {Some("a"), Some("b")}

Frames ==
    UNION {{[i \in 1..Len(c) |-> [time |-> c[i], groups |-> g[i], values |-> Some(i)]] :
               g \in [1..Len(c) -> GroupKeys]} : c \in TimeColumns}

DTypes == {"Date", "Datetime", "Int64"}

EverySet(dt) ==
    IF dt = "Date"
    THEN {MsPerDay \div 2} \cup {k * MsPerDay : k \in 1..MaxEvery}
    ELSE 1..MaxEvery

OffsetSet(dt) ==
    IF dt = "Date"
    THEN {MsPerDay \div 2} \cup {k * MsPerDay : k \in (-1)..MaxOffset}
    ELSE (-1)..MaxOffset

BySet == {<<>>, <<"groups">>}

SortIdle ==
    /\ iters = <<>> /\ options = [descending |-> FALSE, nulls_last |-> FALSE,
                                  multithreaded |-> FALSE]
    /\ null_count = 0 /\ len = 0 /\ vals = <<>> /\ nulls_idx = <<>>
    /\ null_cap = 0 /\ count = 0 /\ chunk = 1 /\ pos = 1 /\ oob = FALSE
    /\ realloc = FALSE /\ idx = <<>>

InitUp ==
    /\ prog = "upsample"
    /\ pc = "idle"
    /\ source \in Frames
    /\ dtype \in DTypes
    /\ by = <<>> /\ every = 1 /\ offset = 0 /\ stable = FALSE
    /\ df = source /\ wdtype = dtype
    /\ bridged = FALSE /\ groups = <<>> /\ blocks = <<>> /\ calls = <<>>
    /\ res = <<>> /\ outcome = "none" /\ out = <<>> /\ out_dtype = dtype
    /\ SortIdle

\* Lines 92-112: the two entry points hand over to upsample_impl.  A frame
\* without rows is upsampled without `by` only: with no group to visit, the
\* grouped result is decided by the group-by engine alone.
Call(st) ==
    /\ prog = "upsample" /\ pc = "idle"
    /\ \E b \in BySet, e \in EverySet(dtype), o \in OffsetSet(dtype) :
          /\ (b # <<>> => source # <<>>)
          /\ by' = b /\ every' = e /\ offset' = o
    /\ stable' = st
    /\ pc' = "impl"
    /\ UNCHANGED <<prog, sortVars, source, dtype, df, wdtype, bridged, groups,
                   blocks, calls, res, outcome, out, out_dtype>>

upsample == Call(FALSE)

upsample_stable == Call(TRUE)

\* Line 124: ensure_sorted_arg fails.
UnsortedFail ==
    /\ prog = "upsample" /\ pc = "impl"
    /\ ~IsSorted(Column(df, "time"))
    /\ outcome' = "unsorted"
    /\ pc' = "return"
    /\ UNCHANGED <<prog, sortVars, source, dtype, by, every, offset, stable, df,
                   wdtype, bridged, groups, blocks, calls, res, out, out_dtype>>

\* Lines 125-131: a Date column is cast to Datetime(ms) in a clone and
\* upsample_impl calls itself on the clone.
DateBridge ==
    /\ prog = "upsample" /\ pc = "impl"
    /\ IsSorted(Column(df, "time"))
    /\ wdtype = "Date"
    /\ df' = WithColumn(df, "time", [i \in 1..Len(df) |-> DateToMs(df[i].time)])
    /\ wdtype' = "Datetime"
    /\ bridged' = TRUE
    /\ UNCHANGED <<prog, pc, sortVars, source, dtype, by, every, offset, stable,
                   groups, blocks, calls, res, outcome, out, out_dtype>>

\* Lines 135-137: no `by`, the whole frame is one group.
SinglePath ==
    /\ prog = "upsample" /\ pc = "impl"
    /\ IsSorted(Column(df, "time"))
    /\ wdtype # "Date"
    /\ by = <<>>
    /\ LET r == upsample_single_impl(df, Column(df, "time"), wdtype, every, offset)
       IN /\ outcome' = IF r.err = "none" THEN "ok" ELSE r.err
          /\ res' = r.frame
          /\ calls' = calls \o r.call
    /\ pc' = "return"
    /\ UNCHANGED <<prog, sortVars, source, dtype, by, every, offset, stable, df,
                   wdtype, bridged, groups, blocks, out, out_dtype>>

\* Lines 139-143: the frame is grouped, stably or not.
GroupBy ==
    /\ prog = "upsample" /\ pc = "impl"
    /\ IsSorted(Column(df, "time"))
    /\ wdtype # "Date"
    /\ by # <<>>
    /\ groups' \in IF stable THEN {group_by_stable(df, by[1])} ELSE group_by(df, by[1])
    /\ pc' = "apply"
    /\ UNCHANGED <<prog, sortVars, source, dtype, by, every, offset, stable, df,
                   wdtype, bridged, blocks, calls, res, outcome, out, out_dtype>>

\* Lines 145-157: apply visits the next group; the closure upsamples it and
\* forward-fills the `by` columns.  The first error ends apply.
ApplyGroup ==
    /\ prog = "upsample" /\ pc = "apply"
    /\ groups # <<>>
    /\ LET g == Head(groups).df
           r == upsample_single_impl(g, ApplyIndexColumn(g, df), wdtype, every, offset)
       IN IF r.err = "none"
          THEN /\ blocks' = Append(blocks, FillBy(r.frame, by))
               /\ calls' = calls \o r.call
               /\ groups' = Tail(groups)
               /\ UNCHANGED <<pc, outcome>>
          ELSE /\ outcome' = r.err
               /\ pc' = "return"
               /\ UNCHANGED <<blocks, calls, groups>>
    /\ UNCHANGED <<prog, sortVars, source, dtype, by, every, offset, stable, df,
                   wdtype, bridged, res, out, out_dtype>>

\* apply has visited every group: the results are concatenated.
ApplyFinish ==
    /\ prog = "upsample" /\ pc = "apply"
    /\ groups = <<>>
    /\ res' = Flatten(blocks)
    /\ outcome' = "ok"
    /\ pc' = "return"
    /\ UNCHANGED <<prog, sortVars, source, dtype, by, every, offset, stable, df,
                   wdtype, bridged, groups, blocks, calls, out, out_dtype>>

\* upsample_impl returns.  In the Date branch (lines 131-134) the result of
\* the recursive call is unwrapped, which panics on an error, and the time
\* column is cast back to Date.
Return ==
    /\ prog = "upsample" /\ pc = "return"
    /\ IF bridged
       THEN IF outcome = "ok"
            THEN /\ out' = NarrowBack(res)
                 /\ out_dtype' = "Date"
                 /\ UNCHANGED outcome
            ELSE /\ outcome' = "panic"
                 /\ UNCHANGED <<out, out_dtype>>
       ELSE /\ out' = res
            /\ out_dtype' = wdtype
            /\ UNCHANGED outcome
    /\ pc' = "done"
    /\ UNCHANGED <<prog, sortVars, source, dtype, by, every, offset, stable, df,
                   wdtype, bridged, groups, blocks, calls, res>>

NextUp ==
    \/ upsample \/ upsample_stable \/ UnsortedFail \/ DateBridge \/ SinglePath
    \/ GroupBy \/ ApplyGroup \/ ApplyFinish \/ Return

SpecUp == InitUp /\ [][NextUp]_vars

\* ------------------------------------------------------- upsample properties
UpDone == prog = "upsample" /\ pc = "done"

\* upsample_impl on the Datetime frame has produced a frame
UpOk == prog = "upsample" /\ pc \in {"return", "done"} /\ outcome = "ok"

SetMin(S) == CHOOSE x \in S : \A y \in S : x <= y

SetMax(S) == CHOOSE x \in S : \A y \in S : y <= x

\* how many rows of the frame are in the set
Count(frame, rows) == Cardinality({i \in 1..Len(frame) : frame[i] \in rows})

\* the points start, start + step, ... that are not past end
GridSet(start, end, step) == {start + n * step : n \in 0..((end - start) \div step)}

\* C4 as stated: the grid starts no earlier than first, advances by `every`
\* and its last timestamp is at or past `last`.
C4_ReachesLast ==
    \A c \in 1..Len(calls) :
        LET r == calls[c].range
        IN r # <<>> =>
              /\ \A k \in 1..Len(r) : calls[c].first <= r[k]
              /\ \A k \in 1..(Len(r) - 1) : r[k + 1] - r[k] = every
              /\ r[Len(r)] >= calls[c].last

\* C4 amended: the grid starts at first, advances by `every`, stays within
\* [first, last] and stops at the last point not past `last`, less than
\* one step before it; it is empty when first is past last.
C4_GridCoverage ==
    \A c \in 1..Len(calls) :
        LET r == calls[c].range
            first == calls[c].first
            last == calls[c].last
        IN /\ (first <= last) => (r # <<>> /\ r[1] = first)
           /\ (first > last) => r = <<>>
           /\ \A k \in 1..Len(r) : first <= r[k] /\ r[k] <= last
           /\ \A k \in 1..(Len(r) - 1) : r[k + 1] - r[k] = every
           /\ r # <<>> => r[Len(r)] > last - every

C4_Witness ==
    /\ UpDone /\ outcome = "ok" /\ dtype = "Datetime"
    /\ \E c \in 1..Len(calls) :
          /\ Len(calls[c].range) >= 2
          /\ calls[c].range[Len(calls[c].range)] < calls[c].last

\* C5: a call never panics, and on a Date or Datetime time column without
\* a non-null value it returns the "cannot determine upsample boundaries"
\* error.
C5_ErrorNotPanic ==
    UpDone =>
        /\ outcome # "panic"
        /\ (/\ dtype \in {"Date", "Datetime"}
            /\ \A i \in 1..Len(source) : source[i].time = None)
           => outcome = "boundaries"

Keys == Range(Column(df, "groups"))

FirstIdx(k) == SetMin({i \in 1..Len(df) : df[i].groups = k})

Rank(k) == 1 + Cardinality({k2 \in Keys : FirstIdx(k2) < FirstIdx(k)})

RowsOf(k) == {df[i] : i \in {j \in 1..Len(df) : df[j].groups = k}}

TimesOf(k) == {Unwrap(r.time) : r \in {q \in RowsOf(k) : IsSome(q.time)}}

GridOf(k) == GridSet(SetMin(TimesOf(k)) + offset, SetMax(TimesOf(k)), every)

\* C6: upsample_stable with `by` returns one block per group, in the order
\* the keys first appear; a block's time column is the grid from the
\* group's own first timestamp plus offset to its own last timestamp, and
\* its value column holds the group's source value where the timestamp
\* matches a source row of the group and null elsewhere.
C6_GroupBlocks ==
    (UpOk /\ stable /\ by # <<>>) =>
        /\ Len(blocks) = Cardinality(Keys)
        /\ res = Flatten(blocks)
        /\ (pc = "done" /\ ~bridged) => out = res
        /\ \A k \in Keys :
              LET blk == blocks[Rank(k)]
              IN /\ TimesOf(k) # {}
                 /\ Range(Column(blk, "time")) = {Some(t) : t \in GridOf(k)}
                 /\ IsSorted(Column(blk, "time"))
                 /\ \A i \in 1..Len(blk) :
                       IF \E s \in RowsOf(k) : s.time = blk[i].time
                       THEN \E s \in RowsOf(k) :
                               s.time = blk[i].time /\ s.values = blk[i].values
                       ELSE blk[i].values = None
                 /\ \A s \in RowsOf(k) :
                       (IsSome(s.time) /\ Unwrap(s.time) \in GridOf(k)) =>
                          Count(blk, {r \in Range(blk) : r.time = s.time /\ r.values = s.values}) = 1

C6_Witness ==
    /\ UpDone /\ outcome = "ok" /\ stable /\ by # <<>> /\ dtype = "Datetime"
    /\ Len(blocks) = 2
    /\ source[1].groups = Some("b")
    /\ Len(blocks[1]) >= 2
    /\ \E i \in 1..Len(blocks[1]) : blocks[1][i].values = None
    /\ \E i \in 1..Len(blocks[2]) : blocks[2][i].values # None
    /\ Range(Column(blocks[1], "time")) # Range(Column(blocks[2], "time"))

\* C7: in the grouped path every row of a group's result carries the
\* group's `by` value after the forward fill: none is null, none carries
\* another group's key.
C7_ByFilled ==
    (UpOk /\ by # <<>>) =>
        \A b \in 1..Len(blocks) :
            \E k \in Keys :
                /\ IsSome(k)
                /\ \A i \in 1..Len(blocks[b]) : blocks[b][i].groups = k

\* the dates a result can hold
Days == (0 - MaxOffset - 2)..(MaxT + 2)

\* C8 as stated: the result of upsampling a Date column is a Date column
\* holding only whole-day instants of the generated grid, so that the
\* narrowing back to Date loses nothing.
C8_WholeDayGrid ==
    (UpDone /\ dtype = "Date" /\ outcome = "ok") =>
        /\ out_dtype = "Date"
        /\ \A c \in 1..Len(calls) :
              \A k \in 1..Len(calls[c].range) : calls[c].range[k] % MsPerDay = 0
        /\ Len(out) = Len(res)
        /\ \A i \in 1..Len(out) :
              \E d \in Days :
                  out[i].time = Some(d) /\ d * MsPerDay = Unwrap(res[i].time)

\* C8 amended: the result is a Date column with the rows of the
\* Datetime(ms) result, each instant at or after the epoch narrowed to the
\* day it falls in and the other columns unchanged; the narrowing is exact
\* when `every` and `offset` are whole days.
C8_DateRoundTrip ==
    (UpDone /\ dtype = "Date" /\ outcome = "ok") =>
        /\ out_dtype = "Date"
        /\ Len(out) = Len(res)
        /\ \A i \in 1..Len(out) :
              /\ out[i].groups = res[i].groups
              /\ out[i].values = res[i].values
              /\ IsSome(out[i].time) /\ IsSome(res[i].time)
              /\ Unwrap(res[i].time) >= 0 =>
                    \E d \in Days :
                        /\ out[i].time = Some(d)
                        /\ d * MsPerDay <= Unwrap(res[i].time)
                        /\ Unwrap(res[i].time) < (d + 1) * MsPerDay
        /\ (every % MsPerDay = 0 /\ offset % MsPerDay = 0) =>
              \A i \in 1..Len(out) :
                  \E d \in Days :
                      out[i].time = Some(d) /\ d * MsPerDay = Unwrap(res[i].time)

C8_Witness ==
    /\ UpDone /\ dtype = "Date" /\ outcome = "ok"
    /\ every = MsPerDay /\ offset = 0
    /\ Len(out) >= 3
    /\ \E i \in 1..Len(out) : out[i].values = None /\ out[i].time = Some(1)
    /\ \E i \in 1..Len(out) : out[i].values # None /\ out[i].time = Some(2)

\* C9: without `by`, every grid timestamp appears max(1, m) times in the
\* result, m being the number of source rows with that timestamp; the rows
\* of a timestamp with m = 0 are null outside the time column; no row has a
\* timestamp off the grid.
C9_JoinMultiplicity ==
    (UpOk /\ by = <<>>) =>
        /\ Len(calls) = 1
        /\ LET grid == calls[1].range
           IN /\ \A k \in 1..Len(grid) :
                    LET m == Count(df, {r \in Range(df) : r.time = Some(grid[k])})
                        n == Count(res, {r \in Range(res) : r.time = Some(grid[k])})
                    IN /\ n = IF m = 0 THEN 1 ELSE m
                       /\ m = 0 => \A i \in 1..Len(res) :
                                      res[i].time = Some(grid[k]) =>
                                         (res[i].groups = None /\ res[i].values = None)
                       /\ \A j \in 1..Len(df) :
                             df[j].time = Some(grid[k]) =>
                                Count(res, {df[j]}) = 1
              /\ \A i \in 1..Len(res) :
                    \E k \in 1..Len(grid) : res[i].time = Some(grid[k])

C9_Witness ==
    /\ UpDone /\ by = <<>> /\ outcome = "ok" /\ dtype = "Datetime"
    /\ \E t \in 0..MaxT : /\ Count(source, {r \in Range(source) : r.time = Some(t)}) = 2
                          /\ Count(out, {r \in Range(out) : r.time = Some(t)}) = 2
    /\ \E i \in 1..Len(out) : out[i].values = None
====
